---- MODULE Spec2Model ----
(***************************************************************************)
(* Model of scoolite's command dispatcher (src/command.rs): run_command    *)
(* builds a command from one line of text and executes it against the      *)
(* in-memory table.                                                        *)
(*                                                                         *)
(* Text that the code inspects (the input line) is a sequence of           *)
(* one-character strings, so that trim, starts_with and tokenising are     *)
(* computed character by character.  Text that the code only produces      *)
(* (messages, rendered rows, results) is a string built with \o.           *)
(*                                                                         *)
(* One element of such a sequence is one character.  A printable ASCII     *)
(* character, tab, line feed, carriage return and form feed are written as *)
(* themselves (" ", "\t", "\n", "\r", "\f"); every other character is      *)
(* written as its Rust escape, one element per character: "\\u{e9}" is      *)
(* U+00E9, "\\u{2003}" is U+2003 (em space).  Produced text shows such a    *)
(* character in the same notation.                                         *)
(*                                                                         *)
(* crate::row, crate::table and crate::error are not part of the sources   *)
(* at hand; Row_from_str, Row_fmt, Table_new, Table_add_row and            *)
(* Table_list_rows follow the written design of the Row Model and the      *)
(* Table Store.                                                            *)
(***************************************************************************)
EXTENDS Integers, Sequences, FiniteSets, TLC

VARIABLES
    table,           \* the Table the caller owns and lends to run_command
    input,           \* the text of the latest run_command call
    command_result,  \* what build_command made of it
    output,          \* what the latest call handed back to the caller
    running,         \* FALSE once the process has exited
    exit_code,       \* the status the process exited with
    calls,           \* number of run_command calls so far
    inserted         \* history: the lines of the inserts that returned Ok, in call order

vars == <<table, input, command_result, output, running, exit_code, calls, inserted>>

(* Number of run_command calls explored in one session. *)
MaxCalls == 4

-----------------------------------------------------------------------------
(* Text helpers *)

(* The characters str::trim strips, the 25 code points with the Unicode     *)
(* property White_Space: U+0020, U+0009..U+000D, U+0085, U+00A0, U+1680,    *)
(* U+2000..U+200A, U+2028, U+2029, U+202F, U+205F and U+3000.               *)
Whitespace ==
    {" ", "\t", "\n", "\r", "\f",
     "\\u{b}", "\\u{85}", "\\u{a0}", "\\u{1680}", "\\u{2000}",
     "\\u{2001}", "\\u{2002}", "\\u{2003}", "\\u{2004}", "\\u{2005}",
     "\\u{2006}", "\\u{2007}", "\\u{2008}", "\\u{2009}", "\\u{200a}",
     "\\u{2028}", "\\u{2029}", "\\u{202f}", "\\u{205f}", "\\u{3000}"}

Digits == <<"0", "1", "2", "3", "4", "5", "6", "7", "8", "9">>

RECURSIVE Str(_)
Str(s) == IF s = <<>> THEN "" ELSE Head(s) \o Str(Tail(s))

RECURSIVE trim_start(_)
trim_start(s) ==
    IF s # <<>> /\ Head(s) \in Whitespace THEN trim_start(Tail(s)) ELSE s

RECURSIVE trim_end(_)
trim_end(s) ==
    IF s # <<>> /\ s[Len(s)] \in Whitespace
    THEN trim_end(SubSeq(s, 1, Len(s) - 1))
    ELSE s

trim(s) == trim_end(trim_start(s))

starts_with(s, prefix) ==
    /\ Len(s) >= Len(prefix)
    /\ SubSeq(s, 1, Len(prefix)) = prefix

RECURSIVE take_token(_)
take_token(s) ==
    IF s = <<>> \/ Head(s) \in Whitespace THEN <<>>
    ELSE <<Head(s)>> \o take_token(Tail(s))

RECURSIVE split_whitespace(_)
split_whitespace(s) ==
    LET t == trim_start(s) IN
    IF t = <<>> THEN <<>>
    ELSE LET tok == take_token(t) IN
         <<tok>> \o split_whitespace(SubSeq(t, Len(tok) + 1, Len(t)))

DigitValue(c) == (CHOOSE i \in 1..10 : Digits[i] = c) - 1

IsDigit(c) == \E i \in 1..10 : Digits[i] = c

RECURSIVE parse_digits(_, _)
parse_digits(s, acc) ==
    IF s = <<>> THEN acc
    ELSE parse_digits(Tail(s), acc * 10 + DigitValue(Head(s)))

RECURSIVE fmt_int(_)
fmt_int(n) ==
    IF n < 10 THEN Digits[n + 1]
    ELSE fmt_int(n \div 10) \o Digits[(n % 10) + 1]

-----------------------------------------------------------------------------
(* Results and errors *)

Ok(v) == [ok |-> TRUE, value |-> v]

Err(e) == [ok |-> FALSE, error |-> e]

UnrecognizedStatement(message) ==
    [kind |-> "UnrecognizedStatement", message |-> message]

SyntaxError(message) == [kind |-> "SyntaxError", message |-> message]

(* What the caller sees of one run_command call: a returned Result, or no  *)
(* return at all because the process ended.                                *)
Returned(r) == [returned |-> TRUE, result |-> r]

NoReturn == [returned |-> FALSE]

NotCalled == [returned |-> FALSE, called |-> FALSE]

-----------------------------------------------------------------------------
(* Row Model and Table Store *)

kw_insert == <<"i", "n", "s", "e", "r", "t">>

kw_select == <<"s", "e", "l", "e", "c", "t">>

kw_exit == <<".", "e", "x", "i", "t">>

field_error(field) ==
    SyntaxError("Syntax error. Failed to parse '" \o field \o "' of input")

parse_id(tok) ==
    IF tok # <<>> /\ \A i \in 1..Len(tok) : IsDigit(tok[i])
    THEN Ok(parse_digits(tok, 0))
    ELSE Err(field_error("id"))

Row_from_str(text) ==
    LET args == IF starts_with(text, kw_insert)
                THEN SubSeq(text, Len(kw_insert) + 1, Len(text))
                ELSE text
        toks == split_whitespace(args)
        id   == IF Len(toks) >= 1 THEN parse_id(toks[1]) ELSE Err(field_error("id"))
    IN  IF ~id.ok THEN id
        ELSE IF Len(toks) < 2 THEN Err(field_error("username"))
        ELSE IF Len(toks) < 3 THEN Err(field_error("email"))
        ELSE Ok([id |-> id.value, username |-> Str(toks[2]), email |-> Str(toks[3])])

Row_fmt(row) ==
    "(" \o fmt_int(row.id) \o ", " \o row.username \o ", " \o row.email \o ")"

Table_new == <<>>

Table_add_row(t, row) == Append(t, row)

Table_list_rows(t) == t

-----------------------------------------------------------------------------
(* Command Model *)

Exit == [family |-> "MetaCommand", variant |-> "Exit"]

Insert(text) == [family |-> "Statement", variant |-> "Insert", text |-> text]

Select == [family |-> "Statement", variant |-> "Select"]

(* Variant: the message forgets the quotes around the text. *)
build_not_implemented_error_unquoted(text) ==
    UnrecognizedStatement("Unrecognized keyword at start of " \o Str(text))

build_not_implemented_error(text) ==
    UnrecognizedStatement("Unrecognized keyword at start of '" \o Str(text) \o "'")

(* Variant: the keyword is matched by prefix, as the statements are. *)
MetaCommand_from_str_prefix(text) ==
    IF starts_with(text, kw_exit) THEN Ok(Exit)
    ELSE Err(build_not_implemented_error(text))

MetaCommand_from_str(text) ==
    IF text = kw_exit THEN Ok(Exit)
    ELSE Err(build_not_implemented_error(text))

(* Variant: Insert carries only what follows the keyword. *)
Statement_from_str_args(text) ==
    IF starts_with(text, kw_insert)
    THEN Ok(Insert(SubSeq(text, Len(kw_insert) + 1, Len(text))))
    ELSE IF starts_with(text, kw_select) THEN Ok(Select)
    ELSE Err(build_not_implemented_error(text))

Statement_from_str(text) ==
    IF starts_with(text, kw_insert) THEN Ok(Insert(text))
    ELSE IF starts_with(text, kw_select) THEN Ok(Select)
    ELSE Err(build_not_implemented_error(text))

build_command(text) ==
    IF text # <<>> /\ Head(text) = "."
    THEN MetaCommand_from_str(trim(text))
    ELSE Statement_from_str(trim(text))

(* execute and its helpers return the outcome of the call together with    *)
(* the table it leaves behind: [exits, code] when the process ends,        *)
(* [exits, result] when the call returns.                                  *)
Outcome(r, t) == [exits |-> FALSE, result |-> r, table |-> t]

ProcessExit(code, t) == [exits |-> TRUE, code |-> code, table |-> t]

(* Variant: the row is parsed but never added. *)
Statement_insert_no_add(text, t) ==
    LET row == Row_from_str(text) IN
    IF ~row.ok THEN Outcome(Err(row.error), t)
    ELSE Outcome(Ok(""), t)

(* Variant: the row is put in front of the others. *)
Statement_insert_front(text, t) ==
    LET row == Row_from_str(text) IN
    IF ~row.ok THEN Outcome(Err(row.error), t)
    ELSE Outcome(Ok(""), <<row.value>> \o t)

Statement_insert(text, t) ==
    LET row == Row_from_str(text) IN
    IF ~row.ok THEN Outcome(Err(row.error), t)
    ELSE Outcome(Ok(""), Table_add_row(t, row.value))

RECURSIVE render_rows(_)
render_rows(rows) ==
    IF rows = <<>> THEN ""
    ELSE (Row_fmt(Head(rows)) \o "\n") \o render_rows(Tail(rows))

RECURSIVE render_rows_reversed(_)
render_rows_reversed(rows) ==
    IF rows = <<>> THEN ""
    ELSE render_rows_reversed(Tail(rows)) \o (Row_fmt(Head(rows)) \o "\n")

(* Variant: the rows come out latest first. *)
Statement_select_reversed(t) ==
    Outcome(Ok(render_rows_reversed(Table_list_rows(t))), t)

Statement_select(t) == Outcome(Ok(render_rows(Table_list_rows(t))), t)

Statement_dispatch(cmd, t) ==
    IF cmd.variant = "Insert" THEN Statement_insert(cmd.text, t)
    ELSE Statement_select(t)

(* Variant: a failed statement is reported as executed. *)
Statement_execute_swallow(cmd, t) ==
    LET o == Statement_dispatch(cmd, t) IN
    IF o.result.ok
    THEN Outcome(Ok(o.result.value \o "Executed.\n"), o.table)
    ELSE Outcome(Ok("Executed.\n"), o.table)

(* Variant: the suffix is appended by insert/select and again by execute. *)
Statement_execute_twice(cmd, t) ==
    LET o == Statement_dispatch(cmd, t) IN
    IF o.result.ok
    THEN Outcome(Ok((o.result.value \o "Executed.\n") \o "Executed.\n"), o.table)
    ELSE o

Statement_execute(cmd, t) ==
    LET o == Statement_dispatch(cmd, t) IN
    IF o.result.ok
    THEN Outcome(Ok(o.result.value \o "Executed.\n"), o.table)
    ELSE o

(* Variant: Exit returns to the caller like a statement. *)
MetaCommand_execute_returns(cmd, t) == Outcome(Ok(""), t)

MetaCommand_execute(cmd, t) == ProcessExit(0, t)

Command_execute(cmd, t) ==
    IF cmd.family = "MetaCommand" THEN MetaCommand_execute(cmd, t)
    ELSE Statement_execute(cmd, t)

try_execute_command(cr, t) ==
    IF ~cr.ok THEN Outcome(Err(cr.error), t)
    ELSE Command_execute(cr.value, t)

-----------------------------------------------------------------------------
(* Input lines *)

S(a, b) == a \o <<" ">> \o b

otaviopace == <<"o", "t", "a", "v", "i", "o", "p", "a", "c", "e">>

otavio_mail ==
    <<"o", "t", "a", "v", "i", "o", "@", "g", "m", "a", "i", "l", ".", "c", "o", "m">>

text_id == <<"t", "e", "x", "t", "_", "i", "d">>

unexistent == <<"u", "n", "e", "x", "i", "s", "t", "e", "n", "t">>

statement == <<"s", "t", "a", "t", "e", "m", "e", "n", "t">>

InsertLines ==
    { S(S(S(kw_insert, <<"1">>), otaviopace), otavio_mail),
      S(S(S(kw_insert, <<"1">>), <<"b", "o">>), <<"b", "@", "c">>),
      S(S(S(kw_insert, <<"0">>), <<"a", "l">>), <<"a", "@", "b">>),
      <<" ", "\t">> \o S(S(S(kw_insert, <<"0", "1", "0">>), <<"c", "y">>), <<"c", "@", "d">>) \o <<"\\u{a0}", "\n">>,
      S(S(S(kw_insert, <<"-", "1">>), otaviopace), otavio_mail),
      S(S(S(kw_insert, text_id), otaviopace), otavio_mail),
      S(S(S(kw_insert, <<"1", "x">>), <<"a", "l">>), <<"a", "@", "b">>),
      kw_insert,
      kw_insert \o <<"\f", "\n">>,
      S(S(S(kw_insert \o <<"x">>, <<"1">>), <<"a", "l">>), <<"a", "@", "b">>) }

SelectLines ==
    { kw_select,
      kw_select \o <<"\n">>,
      <<" ">> \o kw_select,
      S(kw_select, <<"*">>),
      kw_select \o <<"x">> }

MetaLines ==
    { kw_exit,
      kw_exit \o <<"\n">>,
      kw_exit \o <<"\\u{2003}">>,
      <<" ">> \o kw_exit,
      S(kw_exit, <<"n", "o", "w">>),
      <<".", "h", "e", "l", "p">> \o <<"\n">>,
      <<".", "e", "x", "i">>,
      kw_exit \o <<"\\u{e9}">> }

OtherLines ==
    { S(unexistent, statement),
      S(unexistent, statement) \o <<"\n">>,
      <<"\f", " ">> \o unexistent,
      <<"S", "E", "L", "E", "C", "T">>,
      <<"i", "n", "s", "e", "r">>,
      <<"e", "x", "i", "t">>,
      <<" ", "\n">>,
      <<>> }

Lines == InsertLines \cup SelectLines \cup MetaLines \cup OtherLines

-----------------------------------------------------------------------------
(* The session: a caller owning one table and calling run_command          *)

Init ==
    /\ table = Table_new
    /\ input = <<>>
    /\ command_result = Err(UnrecognizedStatement(""))
    /\ output = NotCalled
    /\ running = TRUE
    /\ exit_code = -1
    /\ calls = 0
    /\ inserted = <<>>

run_command(command) ==
    /\ running
    /\ calls < MaxCalls
    /\ LET cr == build_command(command)
           o  == try_execute_command(cr, table)
           out == IF o.exits THEN NoReturn ELSE Returned(o.result)
       IN  /\ input' = command
           /\ command_result' = cr
           /\ table' = o.table
           /\ output' = out
           /\ running' = ~o.exits
           /\ exit_code' = IF o.exits THEN o.code ELSE exit_code
           /\ calls' = calls + 1
           /\ inserted' = IF cr.ok /\ cr.value.variant = "Insert"
                               /\ ~o.exits /\ o.result.ok
                           THEN Append(inserted, command)
                           ELSE inserted

Next == \E command \in Lines : run_command(command)

Spec == Init /\ [][Next]_vars

-----------------------------------------------------------------------------
(* Vocabulary of the properties *)

Called == calls > 0

Tokens(line) == split_whitespace(line)

AllDigits(tok) == tok # <<>> /\ \A i \in 1..Len(tok) : tok[i] \in {Digits[d] : d \in 1..10}

(* `insert <id> <username> <email>` with a non-negative integer id *)
WellFormedInsert(line) ==
    /\ Len(Tokens(line)) = 4
    /\ Tokens(line)[1] = kw_insert
    /\ AllDigits(Tokens(line)[2])

(* an insert whose id token is absent, non-numeric or negative *)
BadIdInsert(line) ==
    /\ Len(Tokens(line)) >= 1
    /\ Tokens(line)[1] = kw_insert
    /\ (Len(Tokens(line)) = 1 \/ ~AllDigits(Tokens(line)[2]))

RowOf(line) ==
    [id       |-> parse_digits(Tokens(line)[2], 0),
     username |-> Str(Tokens(line)[3]),
     email    |-> Str(Tokens(line)[4])]

LineOf(line) ==
    "(" \o fmt_int(parse_digits(Tokens(line)[2], 0)) \o ", " \o Str(Tokens(line)[3])
        \o ", " \o Str(Tokens(line)[4]) \o ")\n"

RECURSIVE LinesOf(_)
LinesOf(ls) == IF ls = <<>> THEN "" ELSE LineOf(Head(ls)) \o LinesOf(Tail(ls))

IdSyntaxError == SyntaxError("Syntax error. Failed to parse 'id' of input")

Unrecognized(txt) ==
    UnrecognizedStatement("Unrecognized keyword at start of '" \o txt \o "'")

(* after trimming, the text starts with none of `.`, `insert`, `select` *)
NoKeyword(line) ==
    LET t == trim(line) IN
    /\ ~(Len(t) >= 1 /\ t[1] = ".")
    /\ ~(Len(t) >= 6 /\ SubSeq(t, 1, 6) = kw_insert)
    /\ ~(Len(t) >= 6 /\ SubSeq(t, 1, 6) = kw_select)

DotFirst(line) == Len(line) >= 1 /\ line[1] = "."

IsPrefix(a, b) == Len(a) <= Len(b) /\ SubSeq(b, 1, Len(a)) = a

InsertedOk(cr, out) ==
    /\ cr.ok
    /\ cr.value.variant = "Insert"
    /\ out.returned
    /\ out.result.ok

SelectedOk(cr, out) ==
    /\ cr.ok
    /\ cr.value.variant = "Select"
    /\ out.returned
    /\ out.result.ok

-----------------------------------------------------------------------------
(* C1: a well-formed insert with a non-negative integer id returns         *)
(* Ok("Executed.\n"), makes the table one row longer, the new last row is  *)
(* (id, username, email), and the rows that were there stay where they     *)
(* were -- also when a row with that id is already in the table.           *)
C1_InsertAppends ==
    [][(calls' = calls + 1 /\ WellFormedInsert(input'))
        => /\ output' = Returned(Ok("Executed.\n"))
           /\ Len(table') = Len(table) + 1
           /\ table'[Len(table')] = RowOf(input')
           /\ SubSeq(table', 1, Len(table)) = table]_vars

(* an insert succeeded on a table that already held a row with its id *)
C1_Witness ==
    /\ WellFormedInsert(input)
    /\ output = Returned(Ok("Executed.\n"))
    /\ Len(table) >= 2
    /\ table[1].id = table[Len(table)].id
    /\ table[1] # table[Len(table)]

(* C2: an insert whose id token is absent, non-numeric or negative returns *)
(* SyntaxError("Syntax error. Failed to parse 'id' of input") and leaves   *)
(* the table exactly as it was.                                            *)
C2_BadIdRejected ==
    [][(calls' = calls + 1 /\ BadIdInsert(input'))
        => /\ output' = Returned(Err(IdSyntaxError))
           /\ table' = table]_vars

(* a negative id was rejected on a table that holds rows *)
C2_Witness ==
    /\ BadIdInsert(input)
    /\ Len(Tokens(input)) = 4
    /\ Tokens(input)[2] = <<"-", "1">>
    /\ output = Returned(Err(IdSyntaxError))
    /\ Len(table) >= 1

(* C3: select returns one line "(<id>, <username>, <email>)\n" per         *)
(* successful insert so far, in the order of those inserts, followed by    *)
(* "Executed.\n"; with no successful insert it returns "Executed.\n".      *)
C3_SelectListsInserts ==
    (Called /\ command_result = Ok(Select))
        => /\ output = Returned(Ok(LinesOf(inserted) \o "Executed.\n"))
           /\ (inserted = <<>> => output = Returned(Ok("Executed.\n")))
           /\ Len(table) = Len(inserted)

(* a select after two different successful inserts and one other call *)
C3_Witness ==
    /\ command_result = Ok(Select)
    /\ output.returned
    /\ Len(inserted) = 2
    /\ LineOf(inserted[1]) # LineOf(inserted[2])
    /\ calls = 4

(* C4 as stated: the message quotes the input text as it was given.        *)
C4_Original ==
    (Called /\ NoKeyword(input))
        => output = Returned(Err(Unrecognized(Str(input))))

(* C4: input that after trimming starts with none of `.`, `insert`,        *)
(* `select` returns UnrecognizedStatement("Unrecognized keyword at start   *)
(* of '<text>'") where <text> is the trimmed input; no command is built or *)
(* executed and the table is unchanged.                                    *)
C4_UnrecognizedTrimmed ==
    [][(calls' = calls + 1 /\ NoKeyword(input'))
        => /\ output' = Returned(Err(Unrecognized(Str(trim(input')))))
           /\ ~command_result'.ok
           /\ running'
           /\ table' = table]_vars

(* padded unknown text was rejected on a table that holds rows *)
C4_Witness ==
    /\ NoKeyword(input)
    /\ input # trim(input)
    /\ trim(input) # <<>>
    /\ output = Returned(Err(Unrecognized(Str(trim(input)))))
    /\ Len(table) >= 1

(* C5: the first character of the trimmed input decides the parser: `.`    *)
(* hands the text to MetaCommand parsing, anything else to Statement       *)
(* parsing; so `.exit` behind leading whitespace is the Exit meta-command. *)
C5_ClassifiesTrimmed ==
    Called =>
        /\ command_result =
              IF DotFirst(trim(input))
              THEN MetaCommand_from_str(trim(input))
              ELSE Statement_from_str(trim(input))
        /\ (trim(input) = kw_exit => command_result = Ok(Exit))

(* C6 as stated: the message quotes the text as the caller gave it.        *)
C6_Original ==
    (Called /\ DotFirst(input))
        => IF trim(input) = kw_exit
           THEN command_result = Ok(Exit)
           ELSE /\ output = Returned(Err(Unrecognized(Str(input))))
                /\ ~command_result.ok

(* C6: of the inputs whose first character is `.`, exactly those that trim *)
(* to `.exit` are Exit; every other one fails with                         *)
(* UnrecognizedStatement("Unrecognized keyword at start of '<text>'")      *)
(* where <text> is the trimmed input, and the table is unchanged.          *)
C6_MetaParsing ==
    [][(calls' = calls + 1 /\ DotFirst(input'))
        => IF trim(input') = kw_exit
           THEN command_result' = Ok(Exit)
           ELSE /\ output' = Returned(Err(Unrecognized(Str(trim(input')))))
                /\ ~command_result'.ok
                /\ running'
                /\ table' = table]_vars

(* a dot-prefixed line that merely starts with `.exit` was rejected *)
C6_Witness ==
    /\ DotFirst(input)
    /\ Len(trim(input)) > 5
    /\ SubSeq(trim(input), 1, 5) = kw_exit
    /\ output = Returned(Err(Unrecognized(Str(trim(input)))))
    /\ Len(table) >= 1

(* C6, second case: `.exit` followed by whitespace is Exit *)
C6_WitnessTrailing ==
    /\ DotFirst(input)
    /\ input # kw_exit
    /\ command_result = Ok(Exit)

(* C7: executing Exit ends the process with status 0 without returning to  *)
(* the caller and without touching the table, and no call is processed     *)
(* after it.                                                               *)
C7_ExitTerminates ==
    [][/\ running
       /\ (command_result' = Ok(Exit)) <=> ~running'
       /\ ~running' => /\ exit_code' = 0
                       /\ output' = NoReturn
                       /\ table' = table]_vars

(* the process exited after rows had been inserted *)
C7_Witness ==
    /\ ~running
    /\ exit_code = 0
    /\ command_result = Ok(Exit)
    /\ Len(table) >= 1
    /\ calls < MaxCalls

(* C8: a call that returns returns Ok exactly when a statement was         *)
(* recognised and its execution succeeded; an Ok text is the operation's   *)
(* own output (empty for insert, the rendered rows for select) followed by *)
(* one "Executed.\n"; an Err is the parse or row-parse error as it was     *)
(* raised, without suffix.                                                 *)
C8_ResultShape ==
    (Called /\ output.returned) =>
        LET r == output.result
            stmt == command_result.ok /\ command_result.value.family = "Statement"
            ins == stmt /\ command_result.value.variant = "Insert"
            row == Row_from_str(command_result.value.text)
        IN  /\ r.ok <=> (stmt /\ (ins => row.ok))
            /\ r.ok => r.value = (IF ins THEN "" ELSE render_rows(table)) \o "Executed.\n"
            /\ ~r.ok => r.error = (IF ~command_result.ok THEN command_result.error
                                   ELSE row.error)

(* a select of a table with rows returned its lines and the suffix *)
C8_Witness ==
    /\ SelectedOk(command_result, output)
    /\ Len(table) >= 2
    /\ output.result.value # "Executed.\n"

(* C8, error side: a row-parse error came back as it was *)
C8_WitnessErr ==
    /\ command_result.ok
    /\ command_result.value.variant = "Insert"
    /\ output = Returned(Err(IdSyntaxError))

(* C9: Statement parsing matches by prefix of the trimmed text: `insert`   *)
(* first, giving Insert with the whole trimmed line; else `select`, giving *)
(* Select whatever follows; else UnrecognizedStatement.                    *)
C9_StatementParsing ==
    (Called /\ ~DotFirst(input)) =>
        LET t == trim(input) IN
        IF Len(t) >= 6 /\ SubSeq(t, 1, 6) = kw_insert
        THEN command_result = Ok(Insert(t))
        ELSE IF Len(t) >= 6 /\ SubSeq(t, 1, 6) = kw_select
        THEN command_result = Ok(Select) /\ output.returned /\ output.result.ok
        ELSE ~command_result.ok /\ command_result.error.kind = "UnrecognizedStatement"

(* a padded insert line was parsed into Insert with the trimmed line *)
C9_Witness ==
    /\ Called
    /\ input # trim(input)
    /\ command_result = Ok(Insert(trim(input)))
    /\ Len(trim(input)) > 6

(* C9, select case: text after the keyword was ignored *)
C9_WitnessSelect ==
    /\ Called
    /\ trim(input) # kw_select
    /\ SelectedOk(command_result, output)

(* C10: the table only grows at its end: the rows before a call are a      *)
(* prefix of the rows after it, the table grows by exactly one row exactly *)
(* when the call is an insert returning Ok, otherwise it is identical, and *)
(* a select right after a select returns the same text.                    *)
C10_AppendOnly ==
    [][calls' = calls + 1
        => /\ IsPrefix(table, table')
           /\ IF InsertedOk(command_result', output')
              THEN Len(table') = Len(table) + 1
              ELSE table' = table
           /\ (Called /\ SelectedOk(command_result, output)
                 /\ SelectedOk(command_result', output'))
                => output' = output]_vars

(* an insert succeeded on a table that already held two rows *)
C10_Witness ==
    /\ InsertedOk(command_result, output)
    /\ Len(table) = 3
    /\ table[1] # table[3]

====
